---- MODULE Spec2Model ----
(***************************************************************************)
(* Model of src/main.py: the HTTP cloud function makemodel, which reads an *)
(* uploaded image from the input bucket, builds the fixed humanoid mesh,   *)
(* exports it as GLB, uploads it to the output bucket and returns its      *)
(* public URL.                                                             *)
(*                                                                         *)
(* Strings are sequences of chunks (a chunk is a piece of text; the        *)
(* separators "/" and "." are always chunks of their own), so that string  *)
(* concatenation, formatting and substring tests are computed.             *)
(* JSON values are tagged records [t, s].                                  *)
(***************************************************************************)
EXTENDS Naturals, Sequences, FiniteSets, TLC

VARIABLES
    pc,            \* pc[i]: position of invocation i in makemodel
    req,           \* req[i]: the request [method, body] given to invocation i
    attempt,       \* attempt[i]: loop variable of the existence poll
    file_found,    \* file_found[i]
    file_contents, \* file_contents[i]: bytes downloaded from the input blob
    glb_data,      \* glb_data[i]: bytes of the exported model
    exc,           \* exc[i]: str(e) of the exception raised inside the try block
    response,      \* response[i]: the (body, status, headers) tuple returned
    log,           \* log[i]: history of the steps invocation i has performed
    inputBucket,   \* input bucket: blob name -> content (absent names are not in the domain)
    outputBucket,  \* output bucket: blob name -> [data, public]
    tmpFiles,      \* local filesystem of the instance: path -> content
    envOps         \* number of changes other clients made to the input bucket

vars == <<pc, req, attempt, file_found, file_contents, glb_data, exc, response,
          log, inputBucket, outputBucket, tmpFiles, envOps>>

\* The two invocations that may run on one instance at the same time.
Invocations == {1, 2}

\* Bound on the uploads and deletions other clients perform on the input bucket.
MaxEnvOps == 1

----------------------------------------------------------------------------
(* Strings and JSON values *)

Cat3(a, b, c) == a \o b \o c

\* Python's `needle in hay` for strings: needle is a contiguous part of hay.
Contains(needle, hay) ==
    \E k \in 0..(Len(hay) - Len(needle)) :
        \A j \in 1..Len(needle) : hay[k + j] = needle[j]

JNull == [t |-> "null", s |-> <<>>]
JStr(s) == [t |-> "str", s |-> s]
JInt(s) == [t |-> "int", s |-> s]

\* Python truthiness of a value obtained from the parsed JSON.
Truthy(v) ==
    CASE v.t = "null" -> FALSE
      [] v.t = "str"  -> v.s # <<>>
      [] v.t = "int"  -> v.s # <<"0">>
      [] OTHER        -> TRUE

\* What an f-string writes for a value: f"{v}".
Format(v) ==
    CASE v.t = "null" -> <<"None">>
      [] OTHER        -> v.s

\* dict.get(key): the value, or None when the key is missing.
Get(d, key) == IF key \in DOMAIN d THEN d[key] ELSE JNull

----------------------------------------------------------------------------
(* Program constants *)

storage_client == "storage.Client"
GCS_INPUT_BUCKET_NAME == <<"input-bucket">>
GCS_OUTPUT_BUCKET_NAME == <<"output-bucket">>
max_retries_one_more == 5 + 1
max_retries == 5
retry_delay_seconds == 2

Marker == <<"File not found in GCS">>

CorsPreflightHeaders ==
    [ACAO |-> "*", ACAM |-> "POST, GET, OPTIONS", ACAH |-> "Content-Type",
     ACMA |-> "3600", ContentType |-> "-"]

response_headers ==
    [ACAO |-> "*", ACAM |-> "-", ACAH |-> "-", ACMA |-> "-",
     ContentType |-> "application/json"]

----------------------------------------------------------------------------
(* Requests *)

NoBody == [kind |-> "none", truthy |-> FALSE, obj |-> <<>>]
\* A JSON body that is not an object: a list, a string, a number, a boolean.
NonDict(truthy) == [kind |-> "nondict", truthy |-> truthy, obj |-> <<>>]
\* A JSON object; Python's {} is falsy.
Dict(d) == [kind |-> "dict", truthy |-> DOMAIN d # {}, obj |-> d]

TaskIdValues ==
    { JStr(<<>>), JInt(<<"0">>),
      JStr(<<"a">>), JStr(<<"a", ".", "b">>), JStr(Marker \o <<"/", "x">>) }

FileExtensionValues ==
    { JStr(<<>>), JStr(<<"png">>), JStr(<<"b", ".", "png">>) }

Dicts ==
    { <<>> }
    \cup { ("taskId" :> t) : t \in TaskIdValues }
    \cup { ("fileExtension" :> e) : e \in FileExtensionValues }
    \cup { ("taskId" :> t) @@ ("fileExtension" :> e) :
             t \in TaskIdValues, e \in FileExtensionValues }

Bodies == { NoBody, NonDict(FALSE), NonDict(TRUE) } \cup { Dict(d) : d \in Dicts }

\* A preflight carries no body; the others are bodies a POST would be refused,
\* would crash on, or would accept.
PreflightBodies ==
    { NoBody, NonDict(TRUE), Dict(<<>>),
      Dict(("taskId" :> JStr(<<"a">>)) @@ ("fileExtension" :> JStr(<<"png">>))) }

Requests ==
    [method : {"POST"}, body : Bodies] \cup [method : {"OPTIONS"}, body : PreflightBodies]

----------------------------------------------------------------------------
(* Names of blobs and files *)

received_task_id(r) == Get(r.body.obj, "taskId")
received_file_extension(r) == Get(r.body.obj, "fileExtension")

\* f"uploads/{received_task_id}.{received_file_extension}"
gcs_input_file_path(r) ==
    <<"uploads", "/">>
    \o Cat3(Format(received_task_id(r)), <<".">>, Format(received_file_extension(r)))

\* os.path.join(a, b): b alone when b is absolute, else a/b.
PathJoin(a, b) ==
    IF b # <<>> /\ Head(b) = "/" THEN b ELSE Cat3(a, <<"/">>, b)

\* os.path.join("/tmp", f"{received_task_id}.{received_file_extension}")
local_temp_file_path(r) ==
    PathJoin(<<"/", "tmp">>,
             Cat3(Format(received_task_id(r)), <<".">>, Format(received_file_extension(r))))

\* The directory part of an absolute path.
Dirname(path) ==
    LET slashes == { k \in 1..Len(path) : path[k] = "/" }
        last == CHOOSE k \in slashes : \A j \in slashes : j <= k
    IN  IF last = 1 THEN <<"/">> ELSE SubSeq(path, 1, last - 1)

\* Directories of the instance's filesystem; makemodel creates none.
Dirs == { <<"/", "tmp">> }

output_blob_name_with_folder(r) == <<"output", "/">> \o Format(received_task_id(r)) \o <<".", "glb">>
\* f"{received_task_id}.glb"
output_blob_name(r) == Format(received_task_id(r)) \o <<".", "glb">>

\* Blob.public_url of a blob of the storage library.
PublicUrl(bucket, name) ==
    <<"https://storage.googleapis.com/">> \o Cat3(bucket, <<"/">>, name)

----------------------------------------------------------------------------
(* Responses *)

NoResponse ==
    [status |-> 0, body |-> [kind |-> "none", obj |-> <<>>], headers |-> response_headers]

\* ('', 204, headers)
PreflightResponse ==
    [status |-> 204, body |-> [kind |-> "text", obj |-> <<>>],
     headers |-> CorsPreflightHeaders]

\* (json.dumps({'error': error_message}), status, response_headers)
ErrorResponse(status, error_message) ==
    [status |-> status,
     body |-> [kind |-> "json", obj |-> ("error" :> JStr(error_message))],
     headers |-> response_headers]

\* (json.dumps(response_data), 200, response_headers)
SuccessResponse(r) ==
    [status |-> 200,
     body |-> [kind |-> "json",
               obj |-> ("model_url" :> JStr(PublicUrl(GCS_OUTPUT_BUCKET_NAME, output_blob_name(r))))
                       @@ ("task_id" :> received_task_id(r))
                       @@ ("message" :> JStr(<<"3D model generated and uploaded successfully!">>))],
     headers |-> response_headers]

NoJsonMessage == <<"No JSON data found in request body.">>
MissingTaskIdMessage == <<"Missing 'taskId' in request body.">>
MissingFileExtensionMessage == <<"Missing 'fileExtension' in request body.">>

NotFoundAfterRetriesMessage(r) ==
    <<"Input file not found in GCS after 5 attempts: gs://">>
    \o Cat3(GCS_INPUT_BUCKET_NAME, <<"/">>, gcs_input_file_path(r))
    \o <<". Please check filename or upload status.">>

ExceptMessage(e) == <<"3D Model generation or GCS access failed: ">> \o e

ExceptStatusAlways500(e) == 500
\* if "File not found in GCS" in str(e): 404 else 500
ExceptStatus(e) == IF Contains(Marker, e) THEN 404 ELSE 500

----------------------------------------------------------------------------
(* Entry and validation *)

IsPreflightMisspelt(r) == r.method = "OPTION"
\* request.method == 'OPTIONS'
IsPreflight(r) == r.method = "OPTIONS"

\* Lines 97-118: the outcome of parsing and validating the body.
\*   "return":   a 400 response with the given message
\*   "raise":    request_json.get raises AttributeError outside the try block
\*   "continue": both fields are truthy
Validation(r) ==
    IF ~r.body.truthy
        THEN [kind |-> "return", msg |-> NoJsonMessage]
    ELSE IF r.body.kind # "dict"
        THEN [kind |-> "raise", msg |-> <<"object has no attribute 'get'">>]
    ELSE IF ~Truthy(received_task_id(r))
        THEN [kind |-> "return", msg |-> MissingTaskIdMessage]
    ELSE IF ~Truthy(received_file_extension(r))
        THEN [kind |-> "return", msg |-> MissingFileExtensionMessage]
    ELSE [kind |-> "continue", msg |-> <<>>]

Logged(i, ev) == log' = [log EXCEPT ![i] = Append(@, ev)]
Goto(i, p) == pc' = [pc EXCEPT ![i] = p]
Return(i, resp) ==
    /\ response' = [response EXCEPT ![i] = resp]
    /\ Goto(i, "done")
\* An exception raised inside the try block: the except clause, lines 191-198.
Raise(i, e) ==
    /\ exc' = [exc EXCEPT ![i] = e]
    /\ Return(i, ErrorResponse(ExceptStatus(e), ExceptMessage(e)))

\* Lines 82-89.
Preflight(i) ==
    /\ pc[i] = "entry"
    /\ IsPreflight(req[i])
    /\ Return(i, PreflightResponse)
    /\ Logged(i, "preflight")
    /\ UNCHANGED <<req, attempt, file_found, file_contents, glb_data, exc,
                   inputBucket, outputBucket, tmpFiles, envOps>>

\* Lines 92-118.
Validate(i) ==
    /\ pc[i] = "entry"
    /\ ~IsPreflight(req[i])
    /\ LET v == Validation(req[i]) IN
         CASE v.kind = "return" ->
                /\ Return(i, ErrorResponse(400, v.msg))
                /\ Logged(i, "get_json")
                /\ exc' = exc
           [] v.kind = "raise" ->
                /\ pc' = [pc EXCEPT ![i] = "propagated"]
                /\ exc' = [exc EXCEPT ![i] = v.msg]
                /\ Logged(i, "get_json")
                /\ response' = response
           [] OTHER ->
                /\ Goto(i, "poll")
                /\ log' = [log EXCEPT ![i] = @ \o <<"get_json", "validated">>]
                /\ UNCHANGED <<exc, response>>
    /\ UNCHANGED <<req, attempt, file_found, file_contents, glb_data,
                   inputBucket, outputBucket, tmpFiles, envOps>>

----------------------------------------------------------------------------
(* The existence poll, lines 129-146 *)

InputBlobExists(i) == gcs_input_file_path(req[i]) \in DOMAIN inputBucket

\* A storage call that fails for a reason of the service or the network.
ServiceUnavailable == <<"503 Service Unavailable">>
NoSuchObject == <<"404 No such object">>

\* The straight-line steps after the poll, in program order (lines 148-189).
StepOrderUploadBeforeTempFile ==
    <<"download", "generate", "upload", "open_temp", "write_temp", "make_public", "respond">>
StepOrder ==
    <<"download", "open_temp", "write_temp", "generate", "upload", "make_public", "respond">>

StepAfter(step) ==
    LET k == CHOOSE n \in 1..Len(StepOrder) : StepOrder[n] = step
    IN  StepOrder[k + 1]

AfterLoopIgnoringFlag(found) == StepOrder[1]
\* if not file_found: return 404; otherwise go on to the download
AfterLoop(found) == IF found THEN StepOrder[1] ELSE "return_404"

\* Lines 133-146: one attempt of the poll. input_blob.exists() returns; when the
\* blob is there the loop breaks, otherwise the handler sleeps and goes to the
\* next attempt, or leaves the loop after the last one.
CheckExists(i) ==
    /\ pc[i] = "poll"
    /\ IF InputBlobExists(i)
          THEN /\ file_found' = [file_found EXCEPT ![i] = TRUE]
               /\ Logged(i, "exists_true")
               /\ Goto(i, AfterLoop(TRUE))
               /\ UNCHANGED <<attempt, response>>
          ELSE /\ file_found' = file_found
               /\ log' = [log EXCEPT ![i] = @ \o <<"exists_false", "sleep">>]
               /\ IF attempt[i] + 1 < max_retries
                     THEN /\ attempt' = [attempt EXCEPT ![i] = @ + 1]
                          /\ UNCHANGED <<pc, response>>
                  ELSE IF AfterLoop(file_found[i]) = "return_404"
                     THEN /\ Return(i, ErrorResponse(404, NotFoundAfterRetriesMessage(req[i])))
                          /\ attempt' = attempt
                  ELSE /\ Goto(i, AfterLoop(file_found[i]))
                       /\ UNCHANGED <<attempt, response>>
    /\ UNCHANGED <<req, file_contents, glb_data, exc,
                   inputBucket, outputBucket, tmpFiles, envOps>>

\* Line 135: input_blob.exists() raises.
CheckExistsFails(i) ==
    /\ pc[i] = "poll"
    /\ Raise(i, ServiceUnavailable)
    /\ Logged(i, "exists_raised")
    /\ UNCHANGED <<req, attempt, file_found, file_contents, glb_data,
                   inputBucket, outputBucket, tmpFiles, envOps>>

----------------------------------------------------------------------------
(* Download, temporary file, generation, upload: lines 148-189 *)

\* Line 148: input_blob.download_as_bytes()
Download(i) ==
    /\ pc[i] = "download"
    /\ IF InputBlobExists(i)
          THEN /\ file_contents' =
                     [file_contents EXCEPT ![i] = inputBucket[gcs_input_file_path(req[i])]]
               /\ Logged(i, "download")
               /\ Goto(i, StepAfter("download"))
               /\ UNCHANGED <<exc, response>>
          ELSE /\ Raise(i, NoSuchObject)
               /\ Logged(i, "download_raised")
               /\ file_contents' = file_contents
    /\ UNCHANGED <<req, attempt, file_found, glb_data,
                   inputBucket, outputBucket, tmpFiles, envOps>>

\* Line 153: open(local_temp_file_path, "wb") creates or truncates the file, or
\* raises FileNotFoundError when the directory does not exist.
OpenTemp(i) ==
    /\ pc[i] = "open_temp"
    /\ LET path == local_temp_file_path(req[i]) IN
         IF Dirname(path) \in Dirs
            THEN /\ tmpFiles' = (path :> "") @@ tmpFiles
                 /\ Logged(i, "open_temp")
                 /\ Goto(i, StepAfter("open_temp"))
                 /\ UNCHANGED <<exc, response>>
            ELSE /\ Raise(i, Cat3(<<"[Errno 2] No such file or directory: '">>, path, <<"'">>))
                 /\ Logged(i, "open_temp_raised")
                 /\ tmpFiles' = tmpFiles
    /\ UNCHANGED <<req, attempt, file_found, file_contents, glb_data,
                   inputBucket, outputBucket, envOps>>

\* Line 154 and the close of the with block: f.write(file_contents)
WriteTemp(i) ==
    /\ pc[i] = "write_temp"
    /\ tmpFiles' = (local_temp_file_path(req[i]) :> file_contents[i]) @@ tmpFiles
    /\ Logged(i, "write_temp")
    /\ Goto(i, StepAfter("write_temp"))
    /\ UNCHANGED <<req, attempt, file_found, file_contents, glb_data, exc, response,
                   inputBucket, outputBucket, envOps>>

\* Line 154: the write raises OSError (no space left on the in-memory /tmp).
WriteTempFails(i) ==
    /\ pc[i] = "write_temp"
    /\ Raise(i, <<"[Errno 28] No space left on device">>)
    /\ Logged(i, "write_temp_raised")
    /\ UNCHANGED <<req, attempt, file_found, file_contents, glb_data,
                   inputBucket, outputBucket, tmpFiles, envOps>>

\* The GLB export of the mesh create_humanoid() builds: a constant.
HumanoidGlb == "glb:humanoid"

ExportedGlbFromImage(i) == IF file_contents[i] = "img1" THEN "glb:img1" ELSE "glb:other"
\* Lines 160-164: create_humanoid() and its export take nothing from the request.
ExportedGlb(i) == HumanoidGlb

Generate(i) ==
    /\ pc[i] = "generate"
    /\ glb_data' = [glb_data EXCEPT ![i] = ExportedGlb(i)]
    /\ Logged(i, "generate")
    /\ Goto(i, StepAfter("generate"))
    /\ UNCHANGED <<req, attempt, file_found, file_contents, exc, response,
                   inputBucket, outputBucket, tmpFiles, envOps>>

\* Lines 160-164: mesh construction or export raises.
GenerateFails(i) ==
    /\ pc[i] = "generate"
    /\ Raise(i, <<"export failed">>)
    /\ Logged(i, "generate_raised")
    /\ UNCHANGED <<req, attempt, file_found, file_contents, glb_data,
                   inputBucket, outputBucket, tmpFiles, envOps>>

\* Lines 171-175: upload_from_string creates or replaces the object; a new
\* object carries the bucket's default ACL, not the old object's.
Upload(i) ==
    /\ pc[i] = "upload"
    /\ outputBucket' =
          (output_blob_name(req[i]) :> [data |-> glb_data[i], public |-> FALSE])
          @@ outputBucket
    /\ Logged(i, "upload")
    /\ Goto(i, StepAfter("upload"))
    /\ UNCHANGED <<req, attempt, file_found, file_contents, glb_data, exc, response,
                   inputBucket, tmpFiles, envOps>>

\* Line 175: upload_from_string raises; nothing was stored.
UploadFails(i) ==
    /\ pc[i] = "upload"
    /\ Raise(i, ServiceUnavailable)
    /\ Logged(i, "upload_raised")
    /\ UNCHANGED <<req, attempt, file_found, file_contents, glb_data,
                   inputBucket, outputBucket, tmpFiles, envOps>>

\* Lines 178-189: make_public(), then the 200 response.
MakePublic(i) ==
    /\ pc[i] = "make_public"
    /\ LET name == output_blob_name(req[i]) IN
         IF name \in DOMAIN outputBucket
            THEN /\ outputBucket' = [outputBucket EXCEPT ![name].public = TRUE]
                 /\ IF StepAfter("make_public") = "respond"
                       THEN /\ Return(i, SuccessResponse(req[i]))
                            /\ log' = [log EXCEPT ![i] = @ \o <<"make_public", "respond">>]
                       ELSE /\ Goto(i, StepAfter("make_public"))
                            /\ Logged(i, "make_public")
                            /\ response' = response
                 /\ exc' = exc
            ELSE /\ Raise(i, NoSuchObject)
                 /\ Logged(i, "make_public_raised")
                 /\ outputBucket' = outputBucket
    /\ UNCHANGED <<req, attempt, file_found, file_contents, glb_data,
                   inputBucket, tmpFiles, envOps>>

\* Line 178: make_public() raises (the bucket forbids object ACLs, or the
\* service fails).
MakePublicFails(i) ==
    /\ pc[i] = "make_public"
    /\ Raise(i, <<"400 Cannot insert legacy ACL for an object">>)
    /\ Logged(i, "make_public_raised")
    /\ UNCHANGED <<req, attempt, file_found, file_contents, glb_data,
                   inputBucket, outputBucket, tmpFiles, envOps>>

----------------------------------------------------------------------------
(* Other clients of the input bucket *)

Images == { "img1", "img2" }

\* The blobs the invocations in progress ask for.
WatchedBlobs ==
    { gcs_input_file_path(req[i]) :
        i \in { j \in Invocations : pc[j] \notin {"done", "propagated"} } }

\* A client uploads (or replaces) an image.
ClientUploads ==
    /\ envOps < MaxEnvOps
    /\ \E name \in WatchedBlobs, img \in Images :
          inputBucket' = (name :> img) @@ inputBucket
    /\ envOps' = envOps + 1
    /\ UNCHANGED <<pc, req, attempt, file_found, file_contents, glb_data, exc,
                   response, log, outputBucket, tmpFiles>>

\* A client deletes an uploaded image.
ClientDeletes ==
    /\ envOps < MaxEnvOps
    /\ \E name \in DOMAIN inputBucket :
          inputBucket' = [n \in DOMAIN inputBucket \ {name} |-> inputBucket[n]]
    /\ envOps' = envOps + 1
    /\ UNCHANGED <<pc, req, attempt, file_found, file_contents, glb_data, exc,
                   response, log, outputBucket, tmpFiles>>

----------------------------------------------------------------------------
(* Specification *)

\* The images uploaded before the invocations begin: any of the blobs they ask for.
InitialBuckets(r) ==
    LET names == { gcs_input_file_path(r[i]) : i \in Invocations }
    IN  UNION { [present -> Images] : present \in SUBSET names }

Init ==
    /\ req \in [Invocations -> Requests]
    /\ pc = [i \in Invocations |-> "entry"]
    /\ attempt = [i \in Invocations |-> 0]
    /\ file_found = [i \in Invocations |-> FALSE]
    /\ file_contents = [i \in Invocations |-> ""]
    /\ glb_data = [i \in Invocations |-> ""]
    /\ exc = [i \in Invocations |-> <<>>]
    /\ response = [i \in Invocations |-> NoResponse]
    /\ log = [i \in Invocations |-> <<>>]
    /\ inputBucket \in InitialBuckets(req)
    /\ outputBucket = <<>>
    /\ tmpFiles = <<>>
    /\ envOps = 0

Step(i) ==
    \/ Preflight(i)
    \/ Validate(i)
    \/ CheckExists(i)
    \/ CheckExistsFails(i)
    \/ Download(i)
    \/ OpenTemp(i)
    \/ WriteTemp(i)
    \/ WriteTempFails(i)
    \/ Generate(i)
    \/ GenerateFails(i)
    \/ Upload(i)
    \/ UploadFails(i)
    \/ MakePublic(i)
    \/ MakePublicFails(i)

Next ==
    \/ \E i \in Invocations : Step(i)
    \/ ClientUploads
    \/ ClientDeletes

Spec == Init /\ [][Next]_vars

\* One invocation running alone among the other clients of the input bucket.
\* The poll of an invocation reads its own request and the input bucket only,
\* and no invocation writes the input bucket, so what the poll can do is the
\* same with or without a second invocation.
SoloInit == Init /\ req[2] = [method |-> "OPTIONS", body |-> NoBody]

SoloNext ==
    \/ Step(1)
    \/ ClientUploads
    \/ ClientDeletes

\* The handler is sequential code whose calls return: an invocation that can
\* take a step eventually takes one.
PollSpec == SoloInit /\ [][SoloNext]_vars /\ WF_vars(Step(1))

----------------------------------------------------------------------------
(* History *)

Has(i, ev) == \E k \in 1..Len(log[i]) : log[i][k] = ev
Count(i, ev) == Len(SelectSeq(log[i], LAMBDA e : e = ev))
FirstPos(i, ev) == CHOOSE k \in 1..Len(log[i]) : log[i][k] = ev /\ \A j \in 1..(k - 1) : log[i][j] # ev
Before(i, a, b) == Has(i, b) => (Has(i, a) /\ FirstPos(i, a) < FirstPos(i, b))

ExistsCalls(i) == Count(i, "exists_true") + Count(i, "exists_false") + Count(i, "exists_raised")

StorageFailures == { "exists_raised", "download_raised", "upload_raised", "make_public_raised" }
LocalFailures == { "open_temp_raised", "write_temp_raised", "generate_raised" }

StorageCallFailed(i) == \E k \in 1..Len(log[i]) : log[i][k] \in StorageFailures
LocalStepFailed(i) == \E k \in 1..Len(log[i]) : log[i][k] \in LocalFailures

IsError(resp) ==
    /\ resp.body.kind = "json"
    /\ DOMAIN resp.body.obj = {"error"}
    /\ resp.body.obj["error"].t = "str"
    /\ resp.headers = response_headers

\* The locations outside blob storage that an invocation has written: the file
\* it opened for writing under /tmp (lines 152-154). Its other variables are
\* locals of the call.
LocationsWrittenWithModuleLevelHeaders(i) ==
    (IF Has(i, "open_temp") THEN { <<"file">> \o local_temp_file_path(req[i]) } ELSE {})
    \cup (IF Has(i, "get_json") THEN { <<"global", "response_headers">> } ELSE {})
LocationsWritten(i) ==
    IF Has(i, "open_temp") THEN { <<"file">> \o local_temp_file_path(req[i]) } ELSE {}

\* The module-level names an invocation has read (lines 14-24, used at 123-125
\* and 172).
LocationsRead(i) ==
    (IF Has(i, "validated")
        THEN { <<"global", "storage_client">>, <<"global", "GCS_INPUT_BUCKET_NAME">> }
        ELSE {})
    \cup (IF Has(i, "upload") \/ Has(i, "upload_raised")
             THEN { <<"global", "GCS_OUTPUT_BUCKET_NAME">> }
             ELSE {})

----------------------------------------------------------------------------
(* Claims *)

\* C1 (as stated): every request that is not OPTIONS and whose body is absent,
\* unparseable or empty, or lacks a truthy taskId, or lacks a truthy
\* fileExtension, is answered 400 with a JSON error body; the checks apply in
\* the order body, taskId, fileExtension.
C1_BadRequestIs400 ==
    \A i \in Invocations :
        LET r == req[i]
            tid == Get(r.body.obj, "taskId")
            ext == Get(r.body.obj, "fileExtension")
            msg == IF ~r.body.truthy THEN NoJsonMessage
                   ELSE IF ~Truthy(tid) THEN MissingTaskIdMessage
                   ELSE MissingFileExtensionMessage
        IN  (/\ pc[i] # "entry"
             /\ r.method # "OPTIONS"
             /\ (~r.body.truthy \/ ~Truthy(tid) \/ ~Truthy(ext)))
            => (/\ pc[i] = "done"
                /\ response[i].status = 400
                /\ IsError(response[i])
                /\ response[i].body.obj["error"] = JStr(msg))

\* C2: when all five existence checks report the blob absent, the invocation
\* returns 404 with a JSON error body and has neither downloaded, generated
\* nor uploaded anything.
C2_AbsentBlobIs404 ==
    \A i \in Invocations :
        Count(i, "exists_false") = 5
        => (/\ pc[i] = "done"
            /\ response[i].status = 404
            /\ IsError(response[i])
            /\ ~Has(i, "download") /\ ~Has(i, "download_raised")
            /\ ~Has(i, "generate") /\ ~Has(i, "upload")
            /\ glb_data[i] = "")

C2_Witness ==
    \E i \in Invocations :
        /\ Count(i, "exists_false") = 5
        /\ response[i].status = 404
        /\ gcs_input_file_path(req[i]) \in DOMAIN inputBucket

ValidRequest(r) ==
    /\ r.method # "OPTIONS"
    /\ r.body.kind = "dict"
    /\ Truthy(Get(r.body.obj, "taskId"))
    /\ Truthy(Get(r.body.obj, "fileExtension"))

ExpectedSuccess(i) ==
    LET tid == Get(req[i].body.obj, "taskId")
        name == Format(tid) \o <<".", "glb">>
        url == <<"https://storage.googleapis.com/">> \o GCS_OUTPUT_BUCKET_NAME \o <<"/">> \o name
    IN  /\ pc[i] = "done"
        /\ response[i].status = 200
        /\ response[i].body.kind = "json"
        /\ DOMAIN response[i].body.obj = {"model_url", "task_id", "message"}
        /\ response[i].body.obj["task_id"] = tid
        /\ response[i].body.obj["model_url"] = JStr(url)
        /\ Before(i, "upload", "make_public") /\ Before(i, "make_public", "respond")
        /\ Has(i, "respond")
        /\ name \in DOMAIN outputBucket
        /\ outputBucket[name].data = HumanoidGlb

C4_GlbIndependentOfImage ==
    \A i \in Invocations : \A j \in Invocations \ {i} :
        (/\ pc[i] = "done" /\ response[i].status = 200
         /\ pc[j] = "done" /\ response[j].status = 200
         /\ Get(req[i].body.obj, "taskId") = Get(req[j].body.obj, "taskId"))
        => (/\ glb_data[i] = glb_data[j]
            /\ response[i] = response[j])

C4_Witness ==
    \E i \in Invocations : \E j \in Invocations \ {i} :
        /\ pc[i] = "done" /\ response[i].status = 200
        /\ pc[j] = "done" /\ response[j].status = 200
        /\ Get(req[i].body.obj, "taskId") = Get(req[j].body.obj, "taskId")
        /\ Get(req[i].body.obj, "fileExtension") # Get(req[j].body.obj, "fileExtension")
        /\ file_contents[i] = "img1" /\ file_contents[j] = "img2"

PollBounded ==
    \A i \in Invocations :
        /\ ExistsCalls(i) <= 5
        /\ Count(i, "sleep") <= 5
        /\ Has(i, "exists_true")
           => (/\ Count(i, "exists_true") = 1
               /\ Count(i, "sleep") = ExistsCalls(i) - 1
               /\ Count(i, "exists_false") = ExistsCalls(i) - 1
               /\ pc[i] # "poll"
               /\ pc[i] = "download" \/ Has(i, "download") \/ Has(i, "download_raised"))

\* C5: exists() is called at most 5 times per invocation; when the k-th check
\* is the first to find the blob, the loop has made exactly k checks and k-1
\* sleeps and the handler goes on to the download; the loop always ends.
C5_PollBoundedAndEnds ==
    /\ []PollBounded
    /\ \A i \in Invocations : (pc[i] = "poll") ~> (pc[i] # "poll")

C5_Witness ==
    \E i \in Invocations :
        /\ ExistsCalls(i) = 3
        /\ Count(i, "sleep") = 2
        /\ Has(i, "exists_true")
        /\ Has(i, "download")

\* C6: an exception raised after validation never leaves makemodel: the
\* invocation returns a JSON error body with status 404 when the exception
\* text contains "File not found in GCS" and 500 otherwise; a blob deleted
\* between the successful existence check and the download is answered so.
C6_ExceptionsBecomeResponses ==
    \A i \in Invocations :
        Has(i, "validated")
        => (/\ pc[i] # "propagated"
            /\ (StorageCallFailed(i) \/ LocalStepFailed(i))
               => (/\ pc[i] = "done"
                   /\ exc[i] # <<>>
                   /\ IsError(response[i])
                   /\ response[i].body.obj["error"].s
                        = <<"3D Model generation or GCS access failed: ">> \o exc[i]
                   /\ response[i].status
                        = (IF Contains(<<"File not found in GCS">>, exc[i]) THEN 404 ELSE 500)))

C6_Witness ==
    \E i \in Invocations : \E j \in Invocations \ {i} :
        /\ Has(i, "exists_true") /\ Has(i, "download_raised")
        /\ response[i].status = 500
        /\ Has(j, "open_temp_raised")
        /\ response[j].status = 404

\* C7: an OPTIONS request is answered 204 with an empty body and the CORS
\* headers whatever its body is, before the body is parsed and without any
\* storage access.
C7_PreflightIs204 ==
    \A i \in Invocations :
        (req[i].method = "OPTIONS" /\ pc[i] # "entry")
        => (/\ pc[i] = "done"
            /\ response[i].status = 204
            /\ response[i].body = [kind |-> "text", obj |-> <<>>]
            /\ response[i].headers.ACAO = "*"
            /\ response[i].headers.ACAM = "POST, GET, OPTIONS"
            /\ response[i].headers.ACAH = "Content-Type"
            /\ response[i].headers.ACMA = "3600"
            /\ log[i] = <<"preflight">>)

C7_Witness ==
    \E i \in Invocations :
        /\ req[i].method = "OPTIONS"
        /\ req[i].body.kind = "nondict" /\ req[i].body.truthy
        /\ pc[i] = "done"
        /\ response[i].status = 204

StepChain ==
    <<"validated", "exists_true", "download", "open_temp", "write_temp",
      "generate", "upload", "make_public", "respond">>

\* The steps of the chain that invocation i has completed, in the order it
\* completed them.
ChainSteps == { StepChain[k] : k \in 1..Len(StepChain) }
CompletedSteps(i) == SelectSeq(log[i], LAMBDA e : e \in ChainSteps)

\* C9: the steps of an invocation happen in the order validation, existence
\* check reporting true, download, temp-file write, generation, upload,
\* make_public, 200 response, each only after the one before it succeeded.
C9_StepsInOrder ==
    \A i \in Invocations :
        /\ LET done == CompletedSteps(i) IN done = SubSeq(StepChain, 1, Len(done))
        /\ response[i].status = 200 <=> Has(i, "respond")

C9_Witness ==
    \E i \in Invocations :
        /\ response[i].status = 200
        /\ Count(i, "exists_false") = 2
        /\ Has(i, "respond")

\* C10 (as stated): an invocation that returns 400, 404 or 500 has made no
\* change to the output bucket.
C10_ErrorLeavesOutputBucket ==
    \A i \in Invocations :
        (pc[i] = "done" /\ response[i].status \in {400, 404, 500})
        => ~Has(i, "upload")

\* C10 (amended): an invocation that returns 400, 404 or 500 has made no change
\* to the output bucket unless it failed after its upload, in make_public; in
\* that case {taskId}.glb stays created or overwritten, and was not made
\* public by this invocation.
C10_ErrorAfterUploadOnlyFromMakePublic ==
    \A i \in Invocations :
        (pc[i] = "done" /\ response[i].status \in {400, 404, 500})
        => (/\ Has(i, "upload") => Has(i, "make_public_raised")
            /\ Has(i, "upload") => output_blob_name(req[i]) \in DOMAIN outputBucket
            /\ ~Has(i, "make_public"))

C10_Witness ==
    \E i \in Invocations :
        /\ pc[i] = "done"
        /\ response[i].status = 500
        /\ Has(i, "upload")
        /\ Has(i, "make_public_raised")
        /\ ~outputBucket[output_blob_name(req[i])].public

====
